---- MODULE Spec2Model ----
(***************************************************************************)
(* A model of the core of src/agent.py:                                    *)
(*   - fmp.make_req, the retrying HTTP GET every endpoint wrapper calls    *)
(*     (specification SpecReq);                                            *)
(*   - the context prompt AgentSession.process_input builds from the       *)
(*     client-supplied history (specification SpecPrompt);                 *)
(*   - the session store `history`, send_msg, AgentSession.process_input   *)
(*     and the /chat route, run as concurrent requests that interleave at  *)
(*     their awaits and at the construction of the Runner (specification   *)
(*     Spec), and run one request after the other, with more kinds of      *)
(*     input and with callers of process_input other than send_msg         *)
(*     (specification SpecSeq), as one request with every kind of stream   *)
(*     event (SpecStream), as concurrent requests with and without a       *)
(*     chat_id (SpecDefault), and as concurrent requests one of which has  *)
(*     its runner call make_req (SpecTool).                                *)
(* Strings the code inspects or builds are sequences of one-character or   *)
(* one-token strings, so that concatenation and search are computed.       *)
(***************************************************************************)
EXTENDS Integers, Sequences, FiniteSets, TLC

VARIABLES
    \* ---- fmp.make_req ----
    mrpc,       \* "idle" | "loop" | "returned" | "raised"
    url,        \* the url argument
    attempt,    \* the loop variable of `for attempt in range(max_retries)`
    gets,       \* the requests.get calls made so far, in order
    log,        \* per finished attempt: its outcome and the time.sleep calls after it
    result,     \* the returned value, NoResult before the return
    \* ---- the context prompt of AgentSession.process_input ----
    client_history, \* the client_history argument: None or a list of entries
    msg,            \* the msg argument
    context_msg,    \* the text handed to the runner, Unbuilt before it is built
    \* ---- the session store, send_msg, AgentSession, /chat ----
    history,    \* the module-level dict: chat id -> AgentSession object
    heap,       \* the AgentSession objects constructed so far; an index is an identity
    tasks,      \* per request: where its coroutine is suspended, and its locals
    nsessions,  \* the session contexts session_service.create_session has made
    nrunners,   \* the Runner objects constructed
    runs,       \* the runner.run_async calls made, in order
    clock       \* datetime.now()

reqVars == <<mrpc, url, attempt, gets, log, result>>
promptVars == <<client_history, msg, context_msg>>

chatVars == <<history, heap, tasks, nsessions, nrunners, runs, clock>>

vars == <<reqVars, promptVars, chatVars>>

\* What the steps of one part of the program leave alone.
notReq == <<promptVars, chatVars>>
notPrompt == <<reqVars, chatVars>>
notChat == <<reqVars, promptVars>>

(***************************************************************************)
(* Values, and the state before anything is called                         *)
(***************************************************************************)

\* Bounds of the model: the requests served, in their order of arrival.
NumTasks == 2

Tasks == 1..NumTasks

\* A key a dict does not hold, an attribute an object does not have.
Missing == "<missing>"

\* Python's None for client_history, and a list given in its place.
None == [given |-> FALSE, list |-> <<>>]
List(l) == [given |-> TRUE, list |-> l]
Unbuilt == <<"<unbuilt>">>

NoResult == [kind |-> "none"]

\* process_input has not ended; the route has not answered.
NoRet == [returned |-> FALSE, raised |-> FALSE, caught |-> FALSE, value |-> <<>>]
NoReply == [code |-> 0, response |-> <<Missing>>, error |-> <<Missing>>,
            chat_id |-> Missing, status |-> Missing]

\* A request that has not arrived.
IdleTask ==
    [pc |-> "idle", kind |-> "none", chat_id |-> Missing, msg |-> "", hist |-> None,
     self |-> <<>>, called |-> FALSE, made |-> <<>>, prompt |-> Unbuilt,
     seen |-> <<>>, events |-> <<>>, nevents |-> 0, ret |-> NoRet, reply |-> NoReply]

\* The state in which make_req has no call.
ReqIdle ==
    /\ mrpc = "idle"
    /\ url = <<>>
    /\ attempt = 0
    /\ gets = <<>>
    /\ log = <<>>
    /\ result = NoResult

\* The state in which the prompt builder has no call.
PromptIdle ==
    /\ client_history = None
    /\ msg = ""
    /\ context_msg = Unbuilt

\* The state after the module is loaded: history = {}, no request yet.
ChatIdle ==
    /\ history = <<>>
    /\ heap = <<>>
    /\ tasks = [t \in Tasks |-> IdleTask]
    /\ nsessions = 0
    /\ nrunners = 0
    /\ runs = <<>>
    /\ clock = 0

(***************************************************************************)
(* fmp.make_req                                                            *)
(***************************************************************************)

\* Bounds of the model.
MaxUrlLen == 2

\* Program constants.
max_retries == 3
retry_delay == 1
request_timeout == 30

UrlChars == {"h", "?", "="}
Urls == UNION {[1..n -> UrlChars] : n \in 0..MaxUrlLen}
api_key == <<"K", "1">>
ApiKeyParam == <<"a", "p", "i", "k", "e", "y", "=">>

\* The HTTP statuses the upstream is taken to answer with, and the other
\* ways one requests.get can end.
Statuses == {200, 204, 301, 404, 429, 499, 500, 503}
ExcMessages == {"conn reset"}

Contains(s, c) == \E i \in DOMAIN s : s[i] = c

\* Faulty variant: the separator does not look at the url.
SeparatorAlwaysQuery(u) == "?"

Separator(u) == IF Contains(u, "?") THEN "&" ELSE "?"

AuthUrl(u) == u \o <<Separator(u)>> \o ApiKeyParam \o api_key

\* Faulty variant: every status from 400 on is taken for a server error.
ClassifyFrom400(status) ==
    IF status = 200 THEN "ok"
    ELSE IF status = 429 THEN "rate_limited"
    ELSE IF status >= 400 THEN "server_error"
    ELSE "client_error"

\* The branch of the if/elif chain a status code takes.
Classify(status) ==
    IF status = 200 THEN "ok"
    ELSE IF status = 429 THEN "rate_limited"
    ELSE IF status >= 500 THEN "server_error"
    ELSE "client_error"

\* Faulty variant: the wait after a 429 does not grow with the attempt.
RateLimitDelayFixed(a) == retry_delay

\* Faulty variant: the wait after a 429 grows with the 429s the call has got.
RateLimitDelayBy429s(a) ==
    retry_delay * (1 + Cardinality({k \in DOMAIN log :
                        log[k].outcome.type = "http" /\ log[k].outcome.status = 429}))

RateLimitDelay(a) == retry_delay * (a + 1)

\* Faulty variant: the wait after a server error grows like the one after a 429.
ServerErrorDelayLinear(a) == retry_delay * (a + 1)

ServerErrorDelay(a) == retry_delay

\* Faulty variant: the except-Timeout branch sleeps after the last attempt too.
TimeoutRetriesAlways(a) == TRUE

\* Whether the except-Timeout branch sleeps and continues.
TimeoutRetries(a) == a < max_retries - 1

TimeoutDelay(a) == retry_delay

ApiError(status) == [kind |-> "error", error |-> <<"API Error ", status>>]
RequestFailed(e) == [kind |-> "error", error |-> <<"Request failed: ", e>>]
MaxRetriesExceeded == [kind |-> "error", error |-> <<"Max retries exceeded">>]
JsonBody == [kind |-> "json"]

\* requests.get(url + separator + "apikey=" + self.api_key, timeout=30)
Get == gets' = Append(gets, [url |-> AuthUrl(url), timeout |-> request_timeout])

\* Faulty variant: the loop runs one iteration too many.
NextIterationOffByOne(outcome, sleeps) ==
    /\ log' = Append(log, [outcome |-> outcome, sleeps |-> sleeps])
    /\ attempt' = attempt + 1
    /\ IF attempt + 1 <= max_retries
       THEN /\ mrpc' = "loop"
            /\ result' = result
       ELSE /\ mrpc' = "returned"
            /\ result' = MaxRetriesExceeded

\* The end of one loop iteration that does not return: the next value of
\* range(max_retries), or the return after the loop when it is exhausted.
NextIteration(outcome, sleeps) ==
    /\ log' = Append(log, [outcome |-> outcome, sleeps |-> sleeps])
    /\ attempt' = attempt + 1
    /\ IF attempt + 1 < max_retries
       THEN /\ mrpc' = "loop"
            /\ result' = result
       ELSE /\ mrpc' = "returned"
            /\ result' = MaxRetriesExceeded

\* A return (or a raise) from inside the loop.
Leave(outcome, pc, res) ==
    /\ log' = Append(log, [outcome |-> outcome, sleeps |-> <<>>])
    /\ attempt' = attempt
    /\ mrpc' = pc
    /\ result' = res

MakeReq(u) ==
    /\ mrpc = "idle"
    /\ mrpc' = "loop"
    /\ url' = u
    /\ attempt' = 0
    /\ UNCHANGED <<gets, log, result>>
    /\ UNCHANGED notReq

\* Faulty variant: a 200 falls into the branch of the other statuses.
Resp200AsError ==
    /\ mrpc = "loop"
    /\ Get
    /\ Leave([type |-> "http", status |-> 200, body |-> "json"], "returned", ApiError(200))
    /\ UNCHANGED <<url, notReq>>

\* status 200 and a body that decodes: return req.json()
Resp200 ==
    /\ mrpc = "loop"
    /\ Get
    /\ Leave([type |-> "http", status |-> 200, body |-> "json"], "returned", JsonBody)
    /\ UNCHANGED <<url, notReq>>

\* Faulty variant: the decoding error is of a class no except clause names.
Resp200BadBodyRaises ==
    /\ mrpc = "loop"
    /\ Get
    /\ Leave([type |-> "http", status |-> 200, body |-> "garbage"], "raised", NoResult)
    /\ UNCHANGED <<url, notReq>>

\* status 200 and a body that is not JSON: req.json() raises
\* requests.exceptions.JSONDecodeError, a RequestException since requests
\* 2.27, and the second except clause turns it into a result. The module
\* imports google.genai and google.adk, which do not install with an
\* older requests, where the error was a plain ValueError.
Resp200BadBody ==
    /\ mrpc = "loop"
    /\ Get
    /\ Leave([type |-> "http", status |-> 200, body |-> "garbage"],
             "returned", RequestFailed("bad json"))
    /\ UNCHANGED <<url, notReq>>

Resp429 ==
    /\ mrpc = "loop"
    /\ Get
    /\ NextIteration([type |-> "http", status |-> 429, body |-> "none"],
                     <<RateLimitDelay(attempt)>>)
    /\ UNCHANGED <<url, notReq>>

RespServerError(status) ==
    /\ mrpc = "loop"
    /\ Classify(status) = "server_error"
    /\ Get
    /\ NextIteration([type |-> "http", status |-> status, body |-> "none"],
                     <<ServerErrorDelay(attempt)>>)
    /\ UNCHANGED <<url, notReq>>

RespClientError(status) ==
    /\ mrpc = "loop"
    /\ Classify(status) = "client_error"
    /\ Get
    /\ Leave([type |-> "http", status |-> status, body |-> "none"],
             "returned", ApiError(status))
    /\ UNCHANGED <<url, notReq>>

GetTimeout ==
    /\ mrpc = "loop"
    /\ Get
    /\ NextIteration([type |-> "timeout"],
                     IF TimeoutRetries(attempt) THEN <<TimeoutDelay(attempt)>> ELSE <<>>)
    /\ UNCHANGED <<url, notReq>>

\* Faulty variant: every exception of the transport is retried like a timeout.
GetRequestExceptionRetried(e) ==
    /\ mrpc = "loop"
    /\ Get
    /\ NextIteration([type |-> "exception", text |-> e], <<retry_delay>>)
    /\ UNCHANGED <<url, notReq>>

GetRequestException(e) ==
    /\ mrpc = "loop"
    /\ Get
    /\ Leave([type |-> "exception", text |-> e], "returned", RequestFailed(e))
    /\ UNCHANGED <<url, notReq>>

ReqStep ==
    \/ Resp200
    \/ Resp200BadBody
    \/ Resp429
    \/ \E s \in Statuses : RespServerError(s)
    \/ \E s \in Statuses : RespClientError(s)
    \/ GetTimeout
    \/ \E m \in ExcMessages : GetRequestException(m)

ReqInit ==
    /\ ReqIdle
    /\ PromptIdle
    /\ ChatIdle

ReqNext ==
    \/ \E u \in Urls : MakeReq(u)
    \/ ReqStep

SpecReq == ReqInit /\ [][ReqNext]_vars

\* make_req is one synchronous loop: once called it keeps taking steps.
SpecReqFair == ReqInit /\ [][ReqNext]_vars /\ WF_vars(ReqStep)

(***************************************************************************)
(* Properties of fmp.make_req                                              *)
(***************************************************************************)

Is429(o) == o.type = "http" /\ o.status = 429
Is5xx(o) == o.type = "http" /\ o.status >= 500
IsTimeout(o) == o.type = "timeout"
IsOtherStatus(o) ==
    o.type = "http" /\ o.status # 200 /\ o.status # 429 /\ o.status < 500
Ended == mrpc \in {"returned", "raised"}
All429 == log # <<>> /\ \A k \in DOMAIN log : Is429(log[k].outcome)
All5xx == log # <<>> /\ \A k \in DOMAIN log : Is5xx(log[k].outcome)

\* C5: when every attempt of a call gets HTTP 429, the call goes on until it
\* has made 3 GETs, the wait before the 2nd GET is 1 time unit and the wait
\* before the 3rd is 2, and after the 3rd 429 it returns 'Max retries
\* exceeded'.
C5_RateLimitedThreeTimes ==
    All429 =>
        /\ Len(log) < 3 => mrpc = "loop"
        /\ Len(log) >= 1 => log[1].sleeps = <<1>>
        /\ Len(log) >= 2 => log[2].sleeps = <<2>>
        /\ Ended => /\ Len(gets) = 3
                    /\ mrpc = "returned"
                    /\ result = MaxRetriesExceeded

C5_Witness == All429 /\ mrpc = "returned" /\ Len(gets) = 3

\* C6: when every attempt of a call gets a status >= 500, the call makes
\* exactly 3 GETs, waits exactly 1 time unit between one attempt and the
\* next, and returns 'Max retries exceeded'.
C6_ServerErrorThreeTimes ==
    All5xx =>
        /\ Len(log) < 3 => mrpc = "loop"
        /\ \A k \in DOMAIN log : k < 3 => log[k].sleeps = <<1>>
        /\ Ended => /\ Len(gets) = 3
                    /\ mrpc = "returned"
                    /\ result = MaxRetriesExceeded

C6_Witness == All5xx /\ mrpc = "returned" /\ Len(gets) = 3

\* C7: at any attempt, a status that is not 200, not 429 and below 500 ends
\* the call at once with 'API Error <code>' for that code: it is the last
\* attempt, no GET and no sleep follow it.
C7_ClientErrorIsTerminal ==
    \A k \in DOMAIN log :
        IsOtherStatus(log[k].outcome) =>
            /\ k = Len(log)
            /\ Len(gets) = k
            /\ log[k].sleeps = <<>>
            /\ mrpc = "returned"
            /\ result = [kind |-> "error",
                         error |-> <<"API Error ", log[k].outcome.status>>]

C7_Witness ==
    /\ Len(log) = 3
    /\ Is429(log[1].outcome)
    /\ Is5xx(log[2].outcome)
    /\ IsOtherStatus(log[3].outcome)
    /\ log[3].outcome.status = 404

IsTransient(o) == Is429(o) \/ Is5xx(o) \/ IsTimeout(o)
AllTransient == log # <<>> /\ \A k \in DOMAIN log : IsTransient(log[k].outcome)

C8_Bounded ==
    /\ Len(gets) <= 3
    /\ Len(gets) = Len(log)
    /\ Ended => Len(gets) >= 1
    /\ mrpc = "returned" =>
          (result = MaxRetriesExceeded <=> (Len(gets) = 3 /\ AllTransient))
    /\ mrpc = "raised" => result # MaxRetriesExceeded

\* C8: every call ends, after at least 1 and at most 3 GETs, whatever the
\* upstream answers; it returns 'Max retries exceeded' exactly when it made
\* 3 GETs and each ended in 429, a status >= 500 or a timeout.
C8_TerminatesWithinThreeGets ==
    /\ []C8_Bounded
    /\ (mrpc = "loop") ~> Ended

C8_Witness ==
    /\ mrpc = "returned"
    /\ Len(gets) = 3
    /\ IsTimeout(log[3].outcome)
    /\ result = MaxRetriesExceeded

\* C9: every GET of a call asks for the url followed by '?apikey=<key>' when
\* the url holds no '?', and by '&apikey=<key>' when it holds one; all GETs
\* of one call ask for the same url.
C9_ApiKeyAppended ==
    \A i \in DOMAIN gets :
        LET r == gets[i].url
            n == Len(url)
        IN  /\ Len(r) = n + 1 + 7 + Len(api_key)
            /\ SubSeq(r, 1, n) = url
            /\ r[n + 1] = (IF \E j \in 1..n : url[j] = "?" THEN "&" ELSE "?")
            /\ SubSeq(r, n + 2, n + 8) = <<"a", "p", "i", "k", "e", "y", "=">>
            /\ SubSeq(r, n + 9, Len(r)) = api_key
            /\ gets[i] = gets[1]

C9_Witness ==
    /\ Len(gets) = 3
    /\ \E j \in DOMAIN url : url[j] = "?"
    /\ gets[3].url[Len(url) + 1] = "&"

\* The time.sleep calls of the call so far.
RECURSIVE SleepCount(_)
SleepCount(l) == IF l = <<>> THEN 0 ELSE Len(l[1].sleeps) + SleepCount(Tail(l))

\* C19: make_req sleeps only before a next attempt: nothing is slept after
\* the third attempt, whether it ended in 429, a status >= 500 or a timeout,
\* and one call sleeps at most twice.
C19_NoSleepAfterLastAttempt ==
    /\ \A k \in DOMAIN log : k >= 3 => log[k].sleeps = <<>>
    /\ SleepCount(log) <= 2

C21_TimeoutRetriedThenGivenUp ==
    \A k \in DOMAIN log :
        IsTimeout(log[k].outcome) =>
            /\ k < 3 => /\ log[k].sleeps = <<1>>
                        /\ Len(log) = k => (mrpc = "loop" /\ result = NoResult)
                        /\ Len(log) > k => Len(gets) > k
            /\ k = 3 => /\ log[k].sleeps = <<>>
                        /\ mrpc = "returned"
                        /\ result = [kind |-> "error", error |-> <<"Max retries exceeded">>]
            /\ k <= 3

C21_Witness ==
    /\ Len(log) = 3
    /\ \A k \in DOMAIN log : IsTimeout(log[k].outcome)
    /\ mrpc = "returned"

IsException(o) == o.type = "exception"

\* C22: at any attempt, an exception of the transport other than a timeout
\* ends the call at once with 'Request failed: <message>' for its message:
\* it is the last attempt, no GET and no sleep follow it.
C22_ExceptionIsTerminal ==
    \A k \in DOMAIN log :
        IsException(log[k].outcome) =>
            /\ k = Len(log)
            /\ Len(gets) = k
            /\ log[k].sleeps = <<>>
            /\ mrpc = "returned"
            /\ result = [kind |-> "error",
                         error |-> <<"Request failed: ", log[k].outcome.text>>]

C22_Witness ==
    /\ Len(log) = 3
    /\ IsTimeout(log[1].outcome)
    /\ Is429(log[2].outcome)
    /\ IsException(log[3].outcome)

Is200(o) == o.type = "http" /\ o.status = 200

C24_NeverRaises ==
    /\ mrpc # "raised"
    /\ Ended =>
          /\ mrpc = "returned"
          /\ result.kind \in {"json", "error"}
          /\ result.kind = "json" <=>
                (Is200(log[Len(log)].outcome) /\ log[Len(log)].outcome.body = "json")
          /\ result.kind = "error" => result.error # <<>>
    /\ \A k \in DOMAIN log :
          (Is200(log[k].outcome) /\ log[k].outcome.body = "garbage") =>
              /\ k = Len(log)
              /\ Len(gets) = k
              /\ mrpc = "returned"
              /\ result.kind = "error"

C24_Witness ==
    /\ Len(log) = 2
    /\ Is429(log[1].outcome)
    /\ Is200(log[2].outcome)
    /\ log[2].outcome.body = "garbage"
    /\ mrpc = "returned"
    /\ result.kind = "error"

(***************************************************************************)
(* The context prompt: AgentSession.process_input, "Build conversation     *)
(* context from history". A text is the sequence of its pieces.            *)
(***************************************************************************)

\* Bounds of the model.
MaxHist == 8

\* Program constants.
RecentWindow == 6

Msgs == {"m1", "m2"}

\* The entries a client may send: a role (or none) and a content (or none).
Entries ==
    { [role |-> "user", content |-> "q"],
      [role |-> "assistant", content |-> "a"],
      [role |-> "system", content |-> Missing],
      [role |-> Missing, content |-> "x"] }

Header == "Contesto conversazione precedente:"
CurrentLabel == "Messaggio corrente: "

\* `if client_history`: None and the empty list are false.
Truthy(h) == h.given /\ h.list # <<>>

\* Faulty variant: the window is one entry short.
RecentHistoryShort(h) ==
    IF Len(h) > RecentWindow THEN SubSeq(h, Len(h) - RecentWindow + 2, Len(h)) ELSE h

\* client_history[-6:] if len(client_history) > 6 else client_history
RecentHistory(h) ==
    IF Len(h) > RecentWindow THEN SubSeq(h, Len(h) - RecentWindow + 1, Len(h)) ELSE h

\* recent_history[:-1]
AllButLast(h) == SubSeq(h, 1, Len(h) - 1)

\* Faulty variant: every role but 'assistant' is taken for the user's.
RoleLabelUnlessAssistant(e) == IF e.role = "assistant" THEN "Assistente" ELSE "Utente"

RoleLabel(e) == IF e.role = "user" THEN "Utente" ELSE "Assistente"

\* hist.get('content', '')
ContentOf(e) == IF e.content = Missing THEN "" ELSE e.content

\* f"{role}: {hist.get('content', '')}"
RenderLine(e) == <<RoleLabel(e), ": ", ContentOf(e)>>

ContextParts(h) ==
    LET kept == AllButLast(RecentHistory(h))
    IN  [i \in 1..Len(kept) |-> RenderLine(kept[i])]

\* chr(10).join(parts)
RECURSIVE JoinLines(_)
JoinLines(parts) ==
    IF parts = <<>> THEN <<>>
    ELSE IF Len(parts) = 1 THEN parts[1]
    ELSE parts[1] \o <<"\n">> \o JoinLines(Tail(parts))

ContextMsg(m, h) ==
    IF Truthy(h) /\ Len(h.list) > 1
    THEN LET context_parts == ContextParts(h.list)
         IN  IF context_parts # <<>>
             THEN <<Header, "\n">> \o JoinLines(context_parts)
                      \o <<"\n", "\n", CurrentLabel, m>>
             ELSE <<m>>
    ELSE <<m>>

\* The caller passes a list instead of None.
HistList ==
    /\ context_msg = Unbuilt
    /\ client_history = None
    /\ client_history' = List(<<>>)
    /\ UNCHANGED <<msg, context_msg, notPrompt>>

\* The caller's list holds one more entry.
HistAppend(e) ==
    /\ context_msg = Unbuilt
    /\ client_history.given
    /\ Len(client_history.list) < MaxHist
    /\ client_history' = List(Append(client_history.list, e))
    /\ UNCHANGED <<msg, context_msg, notPrompt>>

BuildContext(m) ==
    /\ context_msg = Unbuilt
    /\ msg' = m
    /\ context_msg' = ContextMsg(m, client_history)
    /\ UNCHANGED <<client_history, notPrompt>>

PromptInit ==
    /\ ReqIdle
    /\ PromptIdle
    /\ ChatIdle

PromptNext ==
    \/ HistList
    \/ \E e \in Entries : HistAppend(e)
    \/ \E m \in Msgs : BuildContext(m)

SpecPrompt == PromptInit /\ [][PromptNext]_vars

(***************************************************************************)
(* Properties of the context prompt                                        *)
(***************************************************************************)

Built == context_msg # Unbuilt
HistLen == Len(client_history.list)
Min(a, b) == IF a < b THEN a ELSE b

\* C10: for a client history of n entries, when n >= 2 the prompt is the
\* header, then exactly min(n, 6) - 1 rendered lines, which are the entries
\* n - min(n, 6) + 1 .. n - 1 in their order, then the current message; when
\* n <= 1 or no history is given, the prompt is the message and nothing else.
C10_ContextWindow ==
    Built =>
        LET n == HistLen
            k == Min(n, 6) - 1
        IN  IF n >= 2
            THEN /\ Len(context_msg) = 2 + (4 * k - 1) + 4
                 /\ context_msg[1] = Header
                 /\ context_msg[2] = "\n"
                 /\ \A j \in 1..k :
                        /\ SubSeq(context_msg, 4 * j - 1, 4 * j + 1)
                              = RenderLine(client_history.list[n - Min(n, 6) + j])
                        /\ context_msg[4 * j + 2] = "\n"
                 /\ SubSeq(context_msg, 4 * k + 2, 4 * k + 5)
                       = <<"\n", "\n", CurrentLabel, msg>>
            ELSE context_msg = <<msg>>

C10_Witness ==
    /\ Built
    /\ HistLen = 8
    /\ Len(context_msg) = 25
    /\ client_history.list[3] # client_history.list[8]

\* C34: every rendered line of the context is '<label>: <content>', the
\* label being the user's exactly when the role of the entry is 'user' and
\* the assistant's for every other role and for an entry without role, the
\* content being empty for an entry without one; the lines are in the order
\* of their entries in the client history.
C34_LinesLabelledInOrder ==
    (Built /\ HistLen >= 2) =>
        LET n == HistLen
            first == IF n > 6 THEN n - 5 ELSE 1
        IN  \A j \in 1..(n - first) :
                LET e == client_history.list[first + j - 1]
                IN  /\ context_msg[4 * j - 1] = "Utente" <=> e.role = "user"
                    /\ context_msg[4 * j - 1] = "Assistente" <=> e.role # "user"
                    /\ context_msg[4 * j] = ": "
                    /\ context_msg[4 * j + 1] = (IF e.content = Missing THEN "" ELSE e.content)

C34_Witness ==
    /\ Built
    /\ HistLen = 4
    /\ client_history.list[1].role = Missing
    /\ client_history.list[2].role = "user"
    /\ client_history.list[3].role = "system"
    /\ context_msg[3] = "Assistente"
    /\ context_msg[7] = "Utente"
    /\ context_msg[11] = "Assistente"

(***************************************************************************)
(* The session store, send_msg, AgentSession and the /chat route.          *)
(* Every request is a coroutine; it runs alone until it awaits             *)
(* (session_service.create_session, the next event of runner.run_async),   *)
(* and there the other requests may run. Under app.run every request has   *)
(* a thread of its own as well, so that another request may also run       *)
(* while Runner(...) is being constructed, between the test of             *)
(* self.runner and the assignment to it. A step below is the code from     *)
(* one such point to the next.                                             *)
(***************************************************************************)

\* Bounds of the model: the events one run_async call streams at most.
MaxEvents == 2

ChatIds == {"a", "b"}
DefaultChatId == "default"

Fallback == "Mi dispiace, non sono riuscito a elaborare una risposta. Potresti riprovare?"
ErrorText == "Si è verificato un errore. Riprova tra qualche momento."
NoMessageText == "Messaggio non fornito"
ServerErrorPrefix == "Errore del server: "

\* The message of a request that has no body.
NoBody == "<no body>"

\* An entry of the client's list that is no dict: hist.get raises on it.
NotADict == [role |-> "<not a dict>", content |-> "<not a dict>"]

\* The for loop over recent_history[:-1] ends without an exception.
Renderable(h) ==
    (Truthy(h) /\ Len(h.list) > 1) =>
        \A i \in DOMAIN AllButLast(RecentHistory(h.list)) :
            AllButLast(RecentHistory(h.list))[i] # NotADict

\* A part of an event's content without text (a function call).
FunctionCall == "<function call>"
StrOfContent == "str(event.content)"

\* part.text.strip()
Strip(p) == IF p \in {"", " "} THEN "" ELSE p

\* hasattr(part, 'text') and part.text is not None and part.text.strip()
IsTextPart(p) == p # FunctionCall /\ Strip(p) # ""

\* What one event adds to response_events.
ExtractTexts(ev) ==
    IF ~ev.content THEN <<>>
    ELSE IF ev.parts # <<>> THEN SelectSeq(ev.parts, IsTextPart)
    ELSE <<StrOfContent>>

\* "\n".join(valid_responses) if valid_responses else the fallback
Response(events) ==
    IF events # <<>>
    THEN JoinLines([i \in DOMAIN events |-> <<events[i]>>])
    ELSE <<Fallback>>

\* AgentSession.__init__; `by` tells who constructed the object.
NewSession(cid, by) ==
    [i |-> cid, list |-> <<>>, runner |-> <<>>, session |-> <<>>, by |-> by]

\* Faulty variant: the turn records the text sent to the runner.
TurnOfPrompt(m, prompt, response, now) ==
    [user_message |-> prompt, agent_response |-> response, timestamp |-> now]

Turn(m, prompt, response, now) ==
    [user_message |-> <<m>>, agent_response |-> response, timestamp |-> now]

\* data.get('chat_id', 'default')
\* Faulty variant: data.get('chat_id'), without the default.
ChatIdOfNoDefault(c) == c

ChatIdOf(c) == IF c = Missing THEN DefaultChatId ELSE c

\* Faulty variant: every id of the store is given the new session.
PutEverywhere(h, cid, o) == [c \in DOMAIN h \cup {cid} |-> o]

\* Faulty variant: the store is replaced by one that holds the new id only.
PutAlone(h, cid, o) == [c \in {cid} |-> o]

\* Faulty variant: an id the store holds keeps its session.
PutIfAbsent(h, cid, o) ==
    [c \in DOMAIN h \cup {cid} |-> IF c \in DOMAIN h THEN h[c] ELSE o]

\* history[chat_id] = agent_session
Put(h, cid, o) == [c \in DOMAIN h \cup {cid} |-> IF c = cid THEN o ELSE h[c]]

\* Faulty variant: the answer names the default id.
Reply200DefaultId(v, cid) ==
    [code |-> 200, response |-> v, error |-> <<Missing>>, chat_id |-> DefaultChatId,
     status |-> "success"]

Reply200(v, cid) ==
    [code |-> 200, response |-> v, error |-> <<Missing>>, chat_id |-> cid,
     status |-> "success"]
Reply400 ==
    [code |-> 400, response |-> <<Missing>>, error |-> <<NoMessageText>>,
     chat_id |-> Missing, status |-> Missing]
Reply500(e) ==
    [code |-> 500, response |-> <<Missing>>, error |-> <<ServerErrorPrefix, e>>,
     chat_id |-> Missing, status |-> "error"]

Returned(v) == [returned |-> TRUE, raised |-> FALSE, caught |-> FALSE, value |-> v]

\* Faulty variant: the except clause lets an exception of the event stream through.
OnExceptionStreamEscapes(stage) ==
    IF stage = "stream"
    THEN [returned |-> FALSE, raised |-> TRUE, caught |-> FALSE, value |-> <<>>]
    ELSE [returned |-> TRUE, raised |-> FALSE, caught |-> TRUE, value |-> <<ErrorText>>]

\* except Exception as e: print, return the error text; `stage` is where
\* in the try block the exception was raised.
OnException(stage) ==
    [returned |-> TRUE, raised |-> FALSE, caught |-> TRUE, value |-> <<ErrorText>>]

\* Faulty variant: the route answers 500 when process_input caught an exception.
FinishCaughtIs500(rec, out) ==
    [rec EXCEPT !.pc = "done", !.ret = out, !.hist = None, !.prompt = Unbuilt,
                !.seen = <<>>, !.events = <<>>, !.nevents = 0,
                !.reply = IF rec.kind = "direct" THEN NoReply
                          ELSE IF out.raised \/ out.caught THEN Reply500("exception")
                          ELSE Reply200(out.value, rec.chat_id)]

\* The end of a request whose process_input call ended as `out`: send_msg
\* returns the response and chat answers with it; an exception out of
\* send_msg is answered by chat's own except clause. The locals are gone.
Finish(rec, out) ==
    [rec EXCEPT !.pc = "done", !.ret = out, !.hist = None, !.prompt = Unbuilt,
                !.seen = <<>>, !.events = <<>>, !.nevents = 0,
                !.reply = IF rec.kind = "direct" THEN NoReply
                          ELSE IF out.raised THEN Reply500("exception")
                          ELSE Reply200(out.value, rec.chat_id)]

\* Faulty variant: the call does not look at the session it has.
NeedsSessionAlways(obj) == TRUE

\* not hasattr(self, 'session') or self.session is None
NeedsSession(obj) == obj.session = <<>>

\* Faulty variant: the call does not look at the runner it has.
NeedsRunnerAlways(obj) == TRUE

\* not hasattr(self, 'runner') or self.runner is None
NeedsRunner(obj) == obj.runner = <<>>

\* The turns of a log as the entries of a client history, the current
\* message last.
LogAsHistory(l, m) ==
    List([k \in 1..(Len(l) + 1) |->
            IF k <= Len(l) THEN [role |-> "user", content |-> l[k].user_message[1]]
            ELSE [role |-> "user", content |-> m]])

\* Faulty variant: the context is built from the session's own log.
RunAsyncFromLog(t, rec, o, hp) ==
    /\ heap' = hp
    /\ runs' = Append(runs,
            [task |-> t, self |-> o, runner |-> hp[o].runner[1],
             session |-> hp[o].session[1]])
    /\ tasks' = [tasks EXCEPT ![t] =
            [rec EXCEPT !.pc = "streaming",
                        !.prompt = ContextMsg(rec.msg, LogAsHistory(hp[o].list, rec.msg))]]

\* process_input from the building of the context to the first await of
\* the stream, on object o of heap hp: the context is built (and may raise
\* on an entry that is no dict), run_async is called.
RunAsync(t, rec, o, hp) ==
    /\ heap' = hp
    /\ IF Renderable(rec.hist)
       THEN /\ runs' = Append(runs,
                    [task |-> t, self |-> o, runner |-> hp[o].runner[1],
                     session |-> hp[o].session[1]])
            /\ tasks' = [tasks EXCEPT ![t] =
                    [rec EXCEPT !.pc = "streaming",
                                !.prompt = ContextMsg(rec.msg, rec.hist)]]
       ELSE /\ runs' = runs
            /\ tasks' = [tasks EXCEPT ![t] = Finish(rec, OnException("context"))]

\* process_input from the runner check on: when the object has no runner a
\* Runner is constructed (and the constructor may raise), to be assigned
\* in the call's next step; when it has one, the call goes on with it.
ProcessInputBody(t, rec, o, hp, runnerFails) ==
    LET needRunner == NeedsRunner(hp[o])
    IN  /\ runnerFails => needRunner
        /\ IF runnerFails
           THEN /\ heap' = hp
                /\ nrunners' = nrunners
                /\ runs' = runs
                /\ tasks' = [tasks EXCEPT ![t] = Finish(rec, OnException("runner"))]
           ELSE IF needRunner
           THEN /\ heap' = hp
                /\ nrunners' = nrunners + 1
                /\ runs' = runs
                /\ tasks' = [tasks EXCEPT ![t] =
                        [rec EXCEPT !.pc = "pi_runner", !.made = <<nrunners + 1>>]]
           ELSE /\ nrunners' = nrunners
                /\ RunAsync(t, rec, o, hp)

\* process_input from its start: an object without a session context
\* awaits initialize_session first.
ProcessInput(t, rec, o, hp, runnerFails) ==
    IF NeedsSession(hp[o])
    THEN /\ ~runnerFails
         /\ heap' = hp
         /\ tasks' = [tasks EXCEPT ![t] = [rec EXCEPT !.pc = "pi_init", !.called = TRUE]]
         /\ UNCHANGED <<nrunners, runs>>
    ELSE ProcessInputBody(t, [rec EXCEPT !.called = TRUE], o, hp, runnerFails)

\* Faulty variant: send_msg takes every id for a new one.
AbsentAlways(cid) == TRUE

\* chat_id not in history
Absent(cid) == cid \notin DOMAIN history

\* Requests are numbered in their order of arrival.
Arrives(t) ==
    /\ tasks[t].pc = "idle"
    /\ \A u \in Tasks : u < t => tasks[u].pc # "idle"

\* POST /chat with a JSON body that is empty or holds no 'message' key.
ChatNoMessage(t) ==
    /\ Arrives(t)
    /\ tasks' = [tasks EXCEPT ![t] =
                    [@ EXCEPT !.pc = "done", !.kind = "chat", !.msg = Missing,
                              !.reply = Reply400]]
    /\ UNCHANGED <<history, heap, nsessions, nrunners, runs, clock, notChat>>

\* POST /chat without a body. request.get_json() raises on a body it
\* cannot decode (an empty one sent as application/json, in every Flask)
\* and, since Flask 2.1, on a body of another content type, for which it
\* returned None before; the route's except clause catches what it raises.
\* The installed version is not fixed by the source.
ChatNoBody(t) ==
    /\ Arrives(t)
    /\ \E r \in {Reply400, Reply500("get_json failed")} :
          tasks' = [tasks EXCEPT ![t] =
                      [@ EXCEPT !.pc = "done", !.kind = "chat", !.msg = NoBody,
                                !.reply = r]]
    /\ UNCHANGED <<history, heap, nsessions, nrunners, runs, clock, notChat>>

\* POST /chat with message m, chat_id c (or none) and history h: chat calls
\* send_msg, which constructs a session for an id the store does not hold
\* and awaits its initialize_session, and calls process_input on the
\* session the store holds otherwise.
Chat(t, c, m, h, runnerFails) ==
    LET cid == ChatIdOf(c)
        rec == [tasks[t] EXCEPT !.kind = "chat", !.chat_id = cid, !.msg = m, !.hist = h]
    IN  /\ Arrives(t)
        /\ IF Absent(cid)
           THEN /\ ~runnerFails
                /\ heap' = Append(heap, NewSession(cid, "send_msg"))
                /\ tasks' = [tasks EXCEPT ![t] =
                                [rec EXCEPT !.pc = "creating", !.self = <<Len(heap) + 1>>]]
                /\ UNCHANGED <<nrunners, runs>>
           ELSE ProcessInput(t, [rec EXCEPT !.self = <<history[cid]>>],
                             history[cid], heap, runnerFails)
        /\ UNCHANGED <<history, nsessions, clock, notChat>>

\* send_msg's await of initialize_session ends: the object has its session
\* context, is put in the store under the id, and process_input is called
\* on the session the store holds under the id.
SessionCreated(t, runnerFails) ==
    LET rec == tasks[t]
        o == rec.self[1]
        hp == [heap EXCEPT ![o].session = <<nsessions + 1>>]
        store == Put(history, rec.chat_id, o)
    IN  /\ rec.pc = "creating"
        /\ nsessions' = nsessions + 1
        /\ history' = store
        /\ ProcessInput(t, [rec EXCEPT !.self = <<store[rec.chat_id]>>],
                        store[rec.chat_id], hp, runnerFails)
        /\ UNCHANGED <<clock, notChat>>

\* Faulty variant: the session is put in the store before it is initialized.
SessionCreateFailsStored(t) ==
    /\ tasks[t].pc = "creating"
    /\ history' = Put(history, tasks[t].chat_id, tasks[t].self[1])
    /\ tasks' = [tasks EXCEPT ![t] =
                    [@ EXCEPT !.pc = "done", !.hist = None,
                              !.reply = Reply500("create_session failed")]]
    /\ UNCHANGED <<heap, nsessions, nrunners, runs, clock, notChat>>

\* send_msg's await of initialize_session raises: the exception leaves
\* send_msg and chat answers 500; nothing is stored.
SessionCreateFails(t) ==
    /\ tasks[t].pc = "creating"
    /\ tasks' = [tasks EXCEPT ![t] =
                    [@ EXCEPT !.pc = "done", !.hist = None,
                              !.reply = Reply500("create_session failed")]]
    /\ UNCHANGED <<history, heap, nsessions, nrunners, runs, clock, notChat>>

\* A caller other than send_msg calls process_input on an AgentSession it
\* constructed itself: a new one, or one it has called before.
Direct(t, o, m, h, runnerFails) ==
    LET new == o = Len(heap) + 1
        hp == IF new THEN Append(heap, NewSession("direct", "caller")) ELSE heap
        rec == [tasks[t] EXCEPT !.kind = "direct", !.chat_id = "direct", !.msg = m,
                                !.hist = h, !.self = <<o>>]
    IN  /\ Arrives(t)
        /\ o \in 1..(Len(heap) + 1)
        /\ hp[o].by = "caller"
        /\ ProcessInput(t, rec, o, hp, runnerFails)
        /\ UNCHANGED <<history, nsessions, clock, notChat>>

\* process_input's await of initialize_session ends.
InitializeSessionDone(t, runnerFails) ==
    LET rec == tasks[t]
        o == rec.self[1]
        hp == [heap EXCEPT ![o].session = <<nsessions + 1>>]
    IN  /\ rec.pc = "pi_init"
        /\ nsessions' = nsessions + 1
        /\ ProcessInputBody(t, rec, o, hp, runnerFails)
        /\ UNCHANGED <<history, clock, notChat>>

\* process_input's await of initialize_session raises.
InitializeSessionFails(t) ==
    /\ tasks[t].pc = "pi_init"
    /\ tasks' = [tasks EXCEPT ![t] = Finish(@, OnException("session"))]
    /\ UNCHANGED <<history, heap, nsessions, nrunners, runs, clock, notChat>>

\* Faulty variant: a handle that is set is kept.
AssignRunnerIfNone(old, new) == IF old = <<>> THEN new ELSE old

\* self.runner = <the Runner constructed>
AssignRunner(old, new) == new

\* The Runner is constructed: it is assigned to self.runner and the call
\* goes on to build the context and to call run_async.
RunnerAssigned(t) ==
    LET rec == tasks[t]
        o == rec.self[1]
        hp == [heap EXCEPT ![o].runner = AssignRunner(@, rec.made)]
    IN  /\ rec.pc = "pi_runner"
        /\ RunAsync(t, [rec EXCEPT !.made = <<>>], o, hp)
        /\ UNCHANGED <<history, nsessions, nrunners, clock, notChat>>

\* The stream yields one more event.
StreamEvent(t, ev) ==
    /\ tasks[t].pc = "streaming"
    /\ tasks[t].nevents < MaxEvents
    /\ tasks' = [tasks EXCEPT ![t] =
                    [@ EXCEPT !.seen = Append(@, ev), !.events = @ \o ExtractTexts(ev),
                              !.nevents = @ + 1]]
    /\ UNCHANGED <<history, heap, nsessions, nrunners, runs, clock, notChat>>

\* Faulty variant: what the stream gave before it raised is returned.
StreamRaisesKeepsText(t) ==
    /\ tasks[t].pc = "streaming"
    /\ tasks' = [tasks EXCEPT ![t] =
                    Finish(@, IF @.events = <<>> THEN OnException("stream")
                              ELSE Returned(Response(@.events)))]
    /\ UNCHANGED <<history, heap, nsessions, nrunners, runs, clock, notChat>>

\* The stream raises.
StreamRaises(t) ==
    /\ tasks[t].pc = "streaming"
    /\ tasks' = [tasks EXCEPT ![t] = Finish(@, OnException("stream"))]
    /\ UNCHANGED <<history, heap, nsessions, nrunners, runs, clock, notChat>>

\* Faulty variant: the log keeps the newest turn only.
KeepNewestTurn(l, turn) == <<turn>>

\* Faulty variant: the newest turn is put first.
PrependTurn(l, turn) == <<turn>> \o l

\* self.list.append({...})
AppendTurn(l, turn) == Append(l, turn)

\* The stream is exhausted: the response is compiled, the turn appended to
\* self.list, the response returned.
StreamEnds(t) ==
    LET rec == tasks[t]
        o == rec.self[1]
        response == Response(rec.events)
    IN  /\ rec.pc = "streaming"
        /\ heap' = [heap EXCEPT ![o].list =
                        AppendTurn(@, Turn(rec.msg, rec.prompt, response, clock))]
        /\ clock' = clock + 1
        /\ tasks' = [tasks EXCEPT ![t] = Finish(rec, Returned(response))]
        /\ UNCHANGED <<history, nsessions, nrunners, runs, notChat>>

\* The inputs of the concurrent requests.
Events == {[content |-> TRUE, parts |-> <<"x">>]}
Histories == {List(<<>>)}

ChatInit ==
    /\ ReqIdle
    /\ PromptIdle
    /\ ChatIdle

Next ==
    \/ \E t \in Tasks : ChatNoMessage(t)
    \/ \E t \in Tasks : ChatNoBody(t)
    \/ \E t \in Tasks, c \in ChatIds, m \in Msgs, h \in Histories, f \in BOOLEAN :
          Chat(t, c, m, h, f)
    \/ \E t \in Tasks, f \in BOOLEAN : SessionCreated(t, f)
    \/ \E t \in Tasks : SessionCreateFails(t)
    \/ \E t \in Tasks : RunnerAssigned(t)
    \/ \E t \in Tasks, ev \in Events : StreamEvent(t, ev)
    \/ \E t \in Tasks : StreamRaises(t)
    \/ \E t \in Tasks : StreamEnds(t)

\* Concurrent /chat requests.
Spec == ChatInit /\ [][Next]_vars

\* The histories of the requests served one at a time: absent, empty, too
\* short for a context, long enough for one, and broken.
SeqHistories ==
    { None,
      List(<<>>),
      List(<<[role |-> "user", content |-> "q"]>>),
      List(<<[role |-> "user", content |-> "q"], [role |-> "assistant", content |-> "a"]>>),
      List(<<NotADict, [role |-> "user", content |-> "q"]>>) }

\* No request is being served.
Quiet == \A u \in Tasks : tasks[u].pc \in {"idle", "done"}

SeqChatNoMessage(t) == Quiet /\ ChatNoMessage(t)
SeqChatNoBody(t) == Quiet /\ ChatNoBody(t)
SeqChat(t, c, m, h, f) == Quiet /\ Chat(t, c, m, h, f)
SeqDirect(t, o, m, h, f) == Quiet /\ Direct(t, o, m, h, f)

SeqNext ==
    \/ \E t \in Tasks : SeqChatNoMessage(t)
    \/ \E t \in Tasks : SeqChatNoBody(t)
    \/ \E t \in Tasks, c \in ChatIds, m \in Msgs, h \in SeqHistories, f \in BOOLEAN :
          SeqChat(t, c, m, h, f)
    \/ \E t \in Tasks, o \in Tasks, m \in Msgs, h \in SeqHistories, f \in BOOLEAN :
          SeqDirect(t, o, m, h, f)
    \/ \E t \in Tasks, f \in BOOLEAN : SessionCreated(t, f)
    \/ \E t \in Tasks : SessionCreateFails(t)
    \/ \E t \in Tasks, f \in BOOLEAN : InitializeSessionDone(t, f)
    \/ \E t \in Tasks : InitializeSessionFails(t)
    \/ \E t \in Tasks : RunnerAssigned(t)
    \/ \E t \in Tasks, ev \in Events : StreamEvent(t, ev)
    \/ \E t \in Tasks : StreamRaises(t)
    \/ \E t \in Tasks : StreamEnds(t)

\* Requests that do not overlap: each arrives after the one before it was
\* answered.
SpecSeq == ChatInit /\ [][SeqNext]_vars

\* The events of one stream: text parts, a function call, a function call
\* beside a text, blank and empty texts, a content without parts, no content.
StreamEvents ==
    { [content |-> TRUE, parts |-> <<"x">>],
      [content |-> TRUE, parts |-> <<"y">>],
      [content |-> TRUE, parts |-> <<FunctionCall>>],
      [content |-> TRUE, parts |-> <<FunctionCall, "x">>],
      [content |-> TRUE, parts |-> <<" ">>],
      [content |-> TRUE, parts |-> <<"">>],
      [content |-> TRUE, parts |-> <<>>],
      [content |-> FALSE, parts |-> <<>>] }

\* One request, the first for its id, on which nothing fails before the
\* stream.
OneChat(m) == Chat(1, "a", m, List(<<>>), FALSE)
OneSessionCreated == SessionCreated(1, FALSE)
OneRunnerAssigned == RunnerAssigned(1)
OneStreamEvent(ev) == StreamEvent(1, ev)
OneStreamRaises == StreamRaises(1)
OneStreamEnds == StreamEnds(1)

StreamNext ==
    \/ \E m \in Msgs : OneChat(m)
    \/ OneSessionCreated
    \/ OneRunnerAssigned
    \/ \E ev \in StreamEvents : OneStreamEvent(ev)
    \/ OneStreamRaises
    \/ OneStreamEnds

\* One request and the events of every kind its stream may give.
SpecStream == ChatInit /\ [][StreamNext]_vars

\* make_req is in time.sleep between two attempts: the last iteration ended
\* in a sleep and the next GET is not sent yet. (A step of make_req runs
\* from the end of one sleep to the start of the next.)
Sleeping == mrpc = "loop" /\ log # <<>> /\ log[Len(log)].sleeps # <<>>

\* The request whose runner calls make_req, through an endpoint wrapper the
\* agent has as a tool.
Caller == 1

\* Faulty variant: the caller goes on while make_req sleeps.
BlockedUntilSleep(t) == t = Caller /\ mrpc = "loop" /\ ~Sleeping

\* make_req is a synchronous function and time.sleep a blocking call: the
\* request whose runner called make_req gets no event before it returns.
Blocked(t) == t = Caller /\ mrpc = "loop"

\* The caller's request is for the id "a", the others for any id.
ToolChat(t, c) == (t = Caller => c = "a") /\ Chat(t, c, "m1", List(<<>>), FALSE)
ToolSessionCreated(t) == SessionCreated(t, FALSE)
ToolStreamEvent(t, ev) == ~Blocked(t) /\ StreamEvent(t, ev)
ToolStreamEnds(t) == ~Blocked(t) /\ StreamEnds(t)

\* The runner of the caller, between two events of its stream, calls a tool.
ToolCall(u) == tasks[Caller].pc = "streaming" /\ MakeReq(u)

\* The attempts of the call: a response that ends it, and the two kinds of
\* failure after which make_req sleeps.
ToolStep == Resp200 \/ Resp429 \/ GetTimeout

\* app.run serves every request on a thread of its own: the requests other
\* than the caller take their steps whatever make_req is doing.
ToolNext ==
    \/ \E t \in Tasks, c \in ChatIds : ToolChat(t, c)
    \/ \E t \in Tasks : ToolSessionCreated(t)
    \/ \E t \in Tasks : RunnerAssigned(t)
    \/ \E t \in Tasks, ev \in Events : ToolStreamEvent(t, ev)
    \/ \E t \in Tasks : ToolStreamEnds(t)
    \/ ToolCall(<<"h">>)
    \/ ToolStep

\* Concurrent requests, one of which has a tool call to make_req.
SpecTool == ChatInit /\ [][ToolNext]_vars

\* The chat_id of a request: none, or "a".
DefaultIds == {Missing, "a"}

DefaultChat(t, c, m, f) == Chat(t, c, m, List(<<>>), f)

DefaultNext ==
    \/ \E t \in Tasks, c \in DefaultIds, m \in Msgs, f \in BOOLEAN : DefaultChat(t, c, m, f)
    \/ \E t \in Tasks, f \in BOOLEAN : SessionCreated(t, f)
    \/ \E t \in Tasks : SessionCreateFails(t)
    \/ \E t \in Tasks : RunnerAssigned(t)
    \/ \E t \in Tasks, ev \in Events : StreamEvent(t, ev)
    \/ \E t \in Tasks : StreamRaises(t)
    \/ \E t \in Tasks : StreamEnds(t)

\* Concurrent requests with and without a chat_id.
SpecDefault == ChatInit /\ [][DefaultNext]_vars

(***************************************************************************)
(* Properties of the sessions                                              *)
(***************************************************************************)

\* The request is inside runner.run_async: it has sent its message and
\* waits for the response.
InFlight(t) == tasks[t].pc = "streaming"

\* C1: for every conversation id, at most one process_input call is in
\* flight (sent to the runner and waiting for its response) at any time,
\* however the concurrent requests for that id interleave.
C1_OneCallInFlightPerId ==
    \A t, u \in Tasks :
        (t # u /\ InFlight(t) /\ InFlight(u)) => tasks[t].chat_id # tasks[u].chat_id

\* C2: process_input never raises to its caller and, once it has ended, has
\* returned a string, whatever the message and the client history and
\* whichever of the session context's creation, the runner's construction,
\* the building of the context and the event stream failed; a caught
\* failure returns the fixed error text.
C2_ProcessInputTotal ==
    \A t \in Tasks :
        LET r == tasks[t]
        IN  /\ ~r.ret.raised
            /\ (r.called /\ r.pc = "done") => r.ret.returned
            /\ r.ret.returned =>
                  /\ r.ret.value # <<>>
                  /\ \A k \in DOMAIN r.ret.value : r.ret.value[k] \in STRING
            /\ r.ret.caught => r.ret.value = <<ErrorText>>

C2_Witness ==
    \E t, u \in Tasks :
        /\ tasks[t].kind = "direct"
        /\ tasks[t].ret.caught
        /\ heap[tasks[t].self[1]].session = <<>>
        /\ tasks[u].kind = "chat"
        /\ tasks[u].ret.caught
        /\ heap[tasks[u].self[1]].runner # <<>>
        /\ tasks[u].reply.code = 200

\* The step ends a process_input call of request t.
Ends(t) == tasks'[t].called /\ tasks[t].pc # "done" /\ tasks'[t].pc = "done"
LogsUnchanged == \A o \in DOMAIN heap : heap'[o].list = heap[o].list

\* C3: a process_input call that succeeds appends exactly one turn to the
\* log of its session, holding the message as it was given (not the text
\* built for the runner) and the returned response; a call that fails
\* leaves every log as it was, and so does every other step of a call.
C3_TurnLogGrowsByOne ==
    [][ \A t \in Tasks :
          /\ (Ends(t) /\ ~tasks'[t].ret.caught) =>
                LET o == tasks'[t].self[1]
                    before == heap[o].list
                    after == heap'[o].list
                IN  /\ Len(after) = Len(before) + 1
                    /\ SubSeq(after, 1, Len(before)) = before
                    /\ after[Len(after)].user_message = <<tasks'[t].msg>>
                    /\ after[Len(after)].agent_response = tasks'[t].ret.value
                    /\ \A p \in DOMAIN heap : p # o => heap'[p].list = heap[p].list
          /\ (Ends(t) /\ tasks'[t].ret.caught) => LogsUnchanged
          /\ (tasks'[t] # tasks[t] /\ ~Ends(t)) => LogsUnchanged
      ]_vars

C3_Witness ==
    \E t, u \in Tasks :
        /\ tasks[t].pc = "done" /\ tasks[t].called /\ ~tasks[t].ret.caught
        /\ tasks[u].pc = "done" /\ tasks[u].called /\ tasks[u].ret.caught
        /\ t < u
        /\ tasks[t].self = tasks[u].self
        /\ Len(heap[tasks[t].self[1]].list) = 1
        /\ heap[tasks[t].self[1]].list[1].user_message = <<tasks[t].msg>>
        /\ tasks[t].msg # tasks[u].msg

\* send_msg has looked up or created the session of request t and called
\* process_input on it.
Got(t) == tasks[t].kind = "chat" /\ tasks[t].called

\* C4: when requests do not overlap, get-or-create yields for the same id
\* the same session object every time, the one the first call created and
\* the store holds, and for two different ids two different objects.
C4_SameIdSameSession ==
    \A t, u \in Tasks :
        (Got(t) /\ Got(u)) =>
            /\ (tasks[t].chat_id = tasks[u].chat_id) <=> (tasks[t].self = tasks[u].self)
            /\ tasks[t].chat_id \in DOMAIN history
            /\ history[tasks[t].chat_id] = tasks[t].self[1]
            /\ heap[tasks[t].self[1]].i = tasks[t].chat_id

C4_Witness ==
    /\ Got(1) /\ Got(2)
    /\ tasks[1].pc = "done" /\ tasks[2].pc = "done"
    /\ tasks[1].chat_id = tasks[2].chat_id
    /\ tasks[1].self = tasks[2].self
    /\ Len(heap) = 1

\* The step is one in which the runner invocation of request t raises.
RunnerRaises(t) ==
    /\ tasks[t].kind = "chat"
    /\ tasks[t].pc = "streaming"
    /\ tasks'[t].pc = "done"
    /\ (tasks'[t].ret.caught \/ tasks'[t].ret.raised)

\* C11: when the runner invocation raises inside process_input, the /chat
\* request is answered 200 with status 'success', the request's chat_id
\* and the fixed error text as its response, and the step appends no turn
\* to any log.
C11_RunnerFailureIs200 ==
    [][ \A t \in Tasks :
          RunnerRaises(t) =>
              /\ tasks'[t].reply =
                    [code |-> 200,
                     response |-> <<"Si è verificato un errore. Riprova tra qualche momento.">>,
                     error |-> <<Missing>>, chat_id |-> tasks[t].chat_id,
                     status |-> "success"]
              /\ LogsUnchanged
      ]_vars

C11_Witness ==
    \E t \in Tasks :
        /\ tasks[t].kind = "chat"
        /\ tasks[t].pc = "done"
        /\ tasks[t].ret.caught
        /\ \E k \in DOMAIN runs : runs[k].task = t
        /\ tasks[t].reply.code = 200
        /\ heap[tasks[t].self[1]].list = <<>>

\* The request had no message to give: no 'message' key, or no body.
WithoutMessage(t) == tasks[t].kind = "chat" /\ tasks[t].msg \in {Missing, NoBody}

\* C12: a /chat request without a 'message' key, or without a body, is
\* answered 400 with the error 'Messaggio non fornito', no session is
\* looked up or created for it and no runner is invoked for it.
C12_NoMessageIs400 ==
    \A t \in Tasks :
        WithoutMessage(t) =>
            /\ tasks[t].reply.code = 400
            /\ tasks[t].reply.error = <<"Messaggio non fornito">>
            /\ tasks[t].self = <<>>
            /\ ~tasks[t].called
            /\ \A k \in DOMAIN runs : runs[k].task # t

\* The request was the first for an id the store did not hold.
FirstFor(t) ==
    /\ tasks[t].kind = "chat"
    /\ tasks[t].self # <<>>
    /\ \A u \in Tasks : u < t => tasks[u].self # tasks[t].self
Succeeded(t) ==
    tasks[t].pc = "done" /\ tasks[t].reply.code = 200 /\ ~tasks[t].ret.caught
RunsOf(t) == {k \in DOMAIN runs : runs[k].task = t}
Alone(t) == \A u \in Tasks : u # t => tasks[u].pc = "idle"

C13_Once ==
    \A t \in Tasks :
        (FirstFor(t) /\ Succeeded(t)) =>
            LET o == tasks[t].self[1]
                cid == tasks[t].chat_id
            IN  /\ history[cid] = o
                /\ heap[o].i = cid
                /\ Cardinality({p \in DOMAIN heap :
                                   heap[p].i = cid /\ heap[p].session # <<>>}) = 1
                /\ \A p \in DOMAIN heap : p # o => heap[p].session # heap[o].session
                /\ Cardinality(RunsOf(t)) = 1
                /\ \A k \in RunsOf(t) :
                       /\ runs[k].self = o
                       /\ <<runs[k].session>> = heap[o].session
                       /\ <<runs[k].runner>> = heap[o].runner
                /\ tasks[t].reply =
                       [code |-> 200, response |-> tasks[t].ret.value,
                        error |-> <<Missing>>, chat_id |-> cid, status |-> "success"]
                /\ Alone(t) =>
                       /\ Len(heap) = 1
                       /\ nsessions = 1
                       /\ nrunners = 1
                       /\ Len(runs) = 1

\* The response is the text parts the stream gave, in their order, one to a
\* line, or the fallback text when it gave none.
C13_Output ==
    \A t \in Tasks :
        (/\ tasks[t].kind = "chat"
         /\ tasks[t].pc = "streaming"
         /\ tasks'[t].pc = "done"
         /\ ~tasks'[t].ret.caught) =>
            LET ev == tasks[t].events
                r == tasks'[t].reply.response
            IN  IF ev = <<>>
                THEN r = <<"Mi dispiace, non sono riuscito a elaborare una risposta. Potresti riprovare?">>
                ELSE /\ Len(r) = 2 * Len(ev) - 1
                     /\ \A k \in DOMAIN ev : r[2 * k - 1] = ev[k]
                     /\ \A k \in 1..(Len(ev) - 1) : r[2 * k] = "\n"

\* C13: the first /chat request for an id the store does not hold creates
\* one session for the id and puts it in the store, creates the session's
\* context once, invokes the runner exactly once, on that session, and is
\* answered 200 with the runner's output, the chat_id it gave and status
\* 'success'.
C13_FirstRequest == []C13_Once /\ [][C13_Output]_vars

C13_Witness ==
    /\ FirstFor(1) /\ Succeeded(1) /\ Alone(1)
    /\ tasks[1].reply.response = <<"x", "\n", "x">>
    /\ tasks[1].reply.chat_id = "b"

\* C14: no step removes an id from the store: the ids it holds after a step
\* include those it held before.
C14_StoreOnlyGrows ==
    [][ DOMAIN history \subseteq DOMAIN history' ]_vars

C14_Witness ==
    /\ DOMAIN history = {"a", "b"}
    /\ \A t \in Tasks : tasks[t].pc = "done"

\* Object o was constructed by send_msg, initialized and put in the store.
Stored(o) == heap[o].by = "send_msg" /\ heap[o].session # <<>>
StoredFor(c) == {o \in DOMAIN heap : Stored(o) /\ heap[o].i = c}

\* C15: nothing keeps two first requests for one id from creating a session
\* each: the store then holds the one that was put last, the other is
\* overwritten, and no request is answered with an error for it.
C15_LastCreatedIsKept ==
    /\ \A c \in DOMAIN history :
          /\ history[c] \in StoredFor(c)
          /\ \A o \in StoredFor(c) : heap[o].session[1] <= heap[history[c]].session[1]
    /\ \A t \in Tasks :
          (tasks[t].self # <<>> /\ Stored(tasks[t].self[1])) => tasks[t].reply.code # 500

C15_Witness ==
    \E o, p \in DOMAIN heap :
        /\ o # p
        /\ Stored(o) /\ Stored(p)
        /\ heap[o].i = heap[p].i
        /\ history[heap[o].i] = p
        /\ \A t \in Tasks : tasks[t].pc = "done" /\ tasks[t].reply.code = 200

\* The step is the one in which request t assigns the Runner it constructed.
Assigns(t) == tasks[t].pc = "pi_runner" /\ tasks'[t].pc # "pi_runner"

\* C16: a process_input call that found the session without a runner
\* assigns the Runner it constructed whatever the handle holds by then, so
\* that of two overlapping calls on one session the later assignment
\* overwrites the handle the earlier one set.
C16_LaterRunnerOverwrites ==
    [][ \A t \in Tasks :
          Assigns(t) => heap'[tasks[t].self[1]].runner = tasks[t].made
      ]_vars

C16_Witness ==
    \E j, k \in DOMAIN runs :
        /\ j < k
        /\ runs[j].self = runs[k].self
        /\ runs[j].runner # runs[k].runner
        /\ heap[runs[k].self].runner = <<runs[k].runner>>
        /\ nrunners = 2

\* The turn of the log that records message m.
TurnsOf(l, m) == {a \in DOMAIN l : l[a].user_message = <<m>>}

\* C17, as claimed: the turns of two overlapping calls on one session are in
\* the log in the order in which the calls were sent to the runner.
C17_TurnsInSendOrder ==
    \A j, k \in DOMAIN runs :
        (/\ j < k
         /\ runs[j].self = runs[k].self
         /\ tasks[runs[j].task].msg # tasks[runs[k].task].msg) =>
            LET l == heap[runs[j].self].list
            IN  \A a \in TurnsOf(l, tasks[runs[j].task].msg),
                   b \in TurnsOf(l, tasks[runs[k].task].msg) : a < b

\* C17, amended: the turns of a log are in the order in which their calls'
\* responses completed: each holds the time of its completion, and the
\* times grow along the log, whatever the order in which the calls were sent.
C17_TurnsInCompletionOrder ==
    \A o \in DOMAIN heap :
        \A a, b \in DOMAIN heap[o].list :
            a < b => heap[o].list[a].timestamp < heap[o].list[b].timestamp

C17_Witness ==
    \E j, k \in DOMAIN runs :
        /\ j < k
        /\ runs[j].self = runs[k].self
        /\ tasks[runs[j].task].msg # tasks[runs[k].task].msg
        /\ Len(heap[runs[j].self].list) = 2
        /\ heap[runs[j].self].list[1].user_message = <<tasks[runs[k].task].msg>>
        /\ heap[runs[j].self].list[2].user_message = <<tasks[runs[j].task].msg>>

\* C18: every /chat request that was answered with a computed response has
\* a turn with its message and that response in the log of the session the
\* store holds under its id.
C18_TurnIsInStoredSession ==
    \A t \in Tasks :
        (tasks[t].kind = "chat" /\ Succeeded(t)) =>
            /\ tasks[t].chat_id \in DOMAIN history
            /\ \E a \in DOMAIN heap[history[tasks[t].chat_id]].list :
                  LET turn == heap[history[tasks[t].chat_id]].list[a]
                  IN  /\ turn.user_message = <<tasks[t].msg>>
                      /\ turn.agent_response = tasks[t].reply.response

\* The sessions that have their external session context.
Initialized == {o \in DOMAIN heap : heap[o].session # <<>>}

\* C25: the session context of a session in the store is created exactly
\* once: every stored session has one, as many contexts were created as
\* there are sessions that have one, no two sessions share one, no /chat
\* request creates one inside process_input, and every runner call is made
\* with the context that its session has to this day.
C25_ContextCreatedOnce ==
    /\ \A c \in DOMAIN history : history[c] \in Initialized
    /\ nsessions = Cardinality(Initialized)
    /\ \A o, p \in Initialized : o # p => heap[o].session # heap[p].session
    /\ \A t \in Tasks : tasks[t].kind = "chat" => tasks[t].pc # "pi_init"
    /\ \A k \in DOMAIN runs : <<runs[k].session>> = heap[runs[k].self].session

C25_Witness ==
    /\ \A t \in Tasks : Succeeded(t)
    /\ tasks[1].self = tasks[2].self
    /\ Len(runs) = 2
    /\ nsessions = 1

C26_Forward ==
    /\ \A o \in DOMAIN heap : heap[o].runner # <<>> => o \in Initialized
    /\ \A c \in DOMAIN history : history[c] \in Initialized

\* The step is the one in which request t makes process_input's test of
\* self.runner.
TestsRunner(t) ==
    /\ tasks[t].pc \in {"idle", "creating", "pi_init"}
    /\ tasks'[t].called
    /\ tasks'[t].pc \in {"pi_runner", "streaming", "done"}

C26_Reuse ==
    /\ \A o \in DOMAIN heap :
          /\ heap[o].session # <<>> => heap'[o].session = heap[o].session
          /\ heap[o].runner # <<>> => heap'[o].runner # <<>>
    /\ \A t \in Tasks :
          LET o == tasks'[t].self[1]
          IN  (TestsRunner(t) /\ o \in DOMAIN heap /\ heap[o].runner # <<>>) =>
                  /\ nrunners' = nrunners
                  /\ heap'[o].runner = heap[o].runner
                  /\ tasks'[t].pc # "pi_runner"
                  /\ tasks'[t].pc = "streaming" =>
                        /\ Len(runs') = Len(runs) + 1
                        /\ <<runs'[Len(runs')].runner>> = heap[o].runner

\* C26: a session only moves forward: one that has a runner has its session
\* context, every session in the store has its context, a context and a
\* runner handle once set are never unset, and a process_input call that
\* finds the handle set constructs no Runner and calls the one it found,
\* also when an earlier call on the session failed.
C26_SessionMovesForward == []C26_Forward /\ [][C26_Reuse]_vars

C26_Witness ==
    /\ tasks[1].pc = "done" /\ tasks[1].ret.caught /\ RunsOf(1) # {}
    /\ Succeeded(2)
    /\ tasks[1].self = tasks[2].self
    /\ Len(runs) = 2
    /\ runs[1].runner = runs[2].runner
    /\ nrunners = 1

\* What the claims take for a plain-text fragment: the text of a part that
\* has one which is neither empty nor blank.
IsPlainText(p) == p \notin {FunctionCall, "", " "}
TextFragments(ev) == IF ev.content THEN SelectSeq(ev.parts, IsPlainText) ELSE <<>>
RECURSIVE Fragments(_)
Fragments(evs) ==
    IF evs = <<>> THEN <<>> ELSE TextFragments(evs[1]) \o Fragments(Tail(evs))

\* The fragments, one to a line.
Lines(fr) == [k \in 1..(2 * Len(fr) - 1) |-> IF k % 2 = 1 THEN fr[(k + 1) \div 2] ELSE "\n"]

\* C27: only the plain-text fragments of the parts of the events received
\* are in the response being collected: an event without a text part
\* (function calls only, an empty or blank text, a content without parts)
\* adds nothing to it, and the stream goes on being consumed after it.
C27_OnlyTextContributes ==
    \A t \in Tasks :
        tasks[t].pc = "streaming" => tasks[t].events = Fragments(tasks[t].seen)

\* C28: when the stream ends, the call returns the text fragments it
\* received, in their order and one to a line, or the fallback text when it
\* received none; it is no caught failure and a turn holding the message and
\* that response is appended to the session's log.
C28_ResponseIsJoinedFragments ==
    [][ \A t \in Tasks :
          (tasks[t].pc = "streaming" /\ tasks'[t].pc = "done" /\ ~tasks'[t].ret.caught) =>
              LET fr == Fragments(tasks[t].seen)
                  response == IF fr = <<>>
                              THEN <<"Mi dispiace, non sono riuscito a elaborare una risposta. Potresti riprovare?">>
                              ELSE Lines(fr)
                  o == tasks[t].self[1]
              IN  /\ tasks'[t].ret.returned
                  /\ tasks'[t].ret.value = response
                  /\ Len(heap'[o].list) = Len(heap[o].list) + 1
                  /\ heap'[o].list[Len(heap'[o].list)].agent_response = response
                  /\ heap'[o].list[Len(heap'[o].list)].user_message = <<tasks[t].msg>>
      ]_vars

\* C29: when the stream raises after text fragments were received (the call
\* ends as a failure, or without a turn of its own), the call returns the
\* fixed error text and nothing of what was received, and no turn is
\* recorded.
C29_RaiseDropsText ==
    [][ \A t \in Tasks :
          (/\ tasks[t].pc = "streaming"
           /\ tasks[t].events # <<>>
           /\ tasks'[t].pc = "done"
           /\ \/ tasks'[t].ret.caught
              \/ tasks'[t].ret.raised
              \/ heap'[tasks[t].self[1]].list = heap[tasks[t].self[1]].list) =>
              /\ tasks'[t].ret.returned
              /\ tasks'[t].ret.value =
                    <<"Si è verificato un errore. Riprova tra qualche momento.">>
              /\ \A k \in DOMAIN tasks[t].events :
                    \A j \in DOMAIN tasks'[t].ret.value :
                        tasks'[t].ret.value[j] # tasks[t].events[k]
              /\ LogsUnchanged
      ]_vars

C29_Witness ==
    /\ tasks[1].pc = "done"
    /\ tasks[1].ret.caught
    /\ tasks[1].ret.value = <<ErrorText>>
    /\ RunsOf(1) # {}
    /\ heap[1].list = <<>>

\* The step is one in which the session initialization of request t fails
\* in send_msg; the request is one whose initialization failed there.
CreateFails(t) == tasks[t].pc = "creating" /\ tasks'[t].pc = "done" /\ ~tasks'[t].called
FailedCreate(t) ==
    /\ tasks[t].kind = "chat"
    /\ tasks[t].pc = "done"
    /\ tasks[t].self # <<>>
    /\ ~tasks[t].called

C30_Answer ==
    \A t \in Tasks :
        CreateFails(t) =>
            /\ tasks'[t].reply.code = 500
            /\ tasks'[t].reply.status = "error"
            /\ tasks'[t].reply.error[1] = "Errore del server: "
            /\ tasks'[t].ret = NoRet
            /\ history' = history
            /\ tasks[t].chat_id \notin DOMAIN history'
            /\ runs' = runs
            /\ heap' = heap

C30_Again ==
    \A t, u \in Tasks :
        (/\ t < u
         /\ FailedCreate(t)
         /\ tasks[u].kind = "chat"
         /\ tasks[u].chat_id = tasks[t].chat_id
         /\ tasks[u].self # <<>>
         /\ \A v \in Tasks : (t < v /\ v < u) => tasks[v].chat_id # tasks[t].chat_id) =>
            /\ tasks[u].self # tasks[t].self
            /\ heap[tasks[u].self[1]].by = "send_msg"
            /\ \A v \in Tasks : v < u => tasks[v].self # tasks[u].self
            /\ heap[tasks[t].self[1]].session = <<>>

\* C30: when the session initialization fails in send_msg for a new id, the
\* request is answered 500 with status 'error', process_input is not
\* called, no runner is invoked and the store is left without the id; the
\* next request for the id constructs a session and initializes it anew.
C30_CreateFailureIs500 == []C30_Again /\ [][C30_Answer]_vars

C30_Witness ==
    /\ FailedCreate(1)
    /\ tasks[1].reply.code = 500
    /\ tasks[2].chat_id = tasks[1].chat_id
    /\ Succeeded(2)
    /\ tasks[2].self = <<2>>
    /\ history[tasks[1].chat_id] = 2

\* l is the beginning of k.
IsPrefix(l, k) == Len(l) <= Len(k) /\ SubSeq(k, 1, Len(l)) = l

\* C31: the turn log of a session is append-only: after every step the log
\* of every session begins with the log it had before, so that no recorded
\* turn is changed, moved or removed.
C31_LogAppendOnly ==
    [][ \A o \in DOMAIN heap : IsPrefix(heap[o].list, heap'[o].list) ]_vars

C31_Witness ==
    \E o \in DOMAIN heap :
        /\ Len(heap[o].list) = 2
        /\ heap[o].list[1].user_message # heap[o].list[2].user_message

\* The rendered line of a client history entry, as the code's text has it.
LineOf(e) ==
    <<IF e.role = "user" THEN "Utente" ELSE "Assistente", ": ",
      IF e.content = Missing THEN "" ELSE e.content>>

\* C32: the prompt handed to the runner is fixed by the message and the
\* client history alone (the message itself for a history of fewer than two
\* entries, the header, the line of the entry before the last and the
\* message for one of two), whatever the log of the session holds: two
\* sessions with different logs that get the same message and history send
\* the same prompt.
C32_PromptIgnoresLog ==
    \A t \in Tasks :
        tasks[t].pc = "streaming" =>
            LET h == tasks[t].hist
                m == tasks[t].msg
            IN  /\ (~h.given \/ Len(h.list) < 2) => tasks[t].prompt = <<m>>
                /\ (h.given /\ Len(h.list) = 2) =>
                      tasks[t].prompt =
                          <<"Contesto conversazione precedente:", "\n">>
                              \o LineOf(h.list[1])
                              \o <<"\n", "\n", "Messaggio corrente: ", m>>

C32_Witness ==
    \E t \in Tasks :
        /\ tasks[t].pc = "streaming"
        /\ Len(tasks[t].prompt) = 9
        /\ Len(heap[tasks[t].self[1]].list) = 1
        /\ heap[tasks[t].self[1]].list[1].user_message # <<tasks[t].msg>>

\* C33: a step of a request for one id changes nothing of what the store
\* holds under another id: not the session object stored under it, not its
\* runner handle, its session context or its turn log.
C33_OtherIdsUntouched ==
    [][ \A t \in Tasks :
          tasks'[t] # tasks[t] =>
              \A c \in DOMAIN history :
                  c # tasks'[t].chat_id =>
                      /\ c \in DOMAIN history'
                      /\ history'[c] = history[c]
                      /\ heap'[history[c]] = heap[history[c]]
      ]_vars

C33_Witness ==
    /\ DOMAIN history = {"a", "b"}
    /\ \E t, u \in Tasks :
          /\ tasks[t].chat_id = "a" /\ Succeeded(t)
          /\ tasks[u].chat_id = "b" /\ tasks[u].pc = "done" /\ tasks[u].ret.caught
          /\ Len(heap[history["a"]].list) = 1
          /\ heap[history["b"]].list = <<>>

\* A request of SpecDefault that gave no chat_id: one that did not give "a".
WithoutChatId(t) == tasks[t].kind = "chat" /\ tasks[t].pc # "idle" /\ tasks[t].chat_id # "a"

\* What of C35 one request shows by itself: the id of its session and of
\* its envelope.
C35_IdIsDefault ==
    \A t \in Tasks :
        WithoutChatId(t) =>
            /\ tasks[t].chat_id = "default"
            /\ heap[tasks[t].self[1]].i = "default"
            /\ tasks[t].reply.code = 200 => tasks[t].reply.chat_id = "default"

\* C35: a /chat request without chat_id is handled on the id 'default': its
\* session is the one the store holds under 'default', the same for all
\* such requests, the log of that session holds one turn for each of them
\* that succeeded, and the envelope of a success reports chat_id 'default'.
C35_NoChatIdIsDefault ==
    \A t \in Tasks :
        WithoutChatId(t) =>
            /\ tasks[t].chat_id = "default"
            /\ heap[tasks[t].self[1]].i = "default"
            /\ tasks[t].reply.code = 200 => tasks[t].reply.chat_id = "default"
            /\ Got(t) =>
                  /\ "default" \in DOMAIN history
                  /\ history["default"] = tasks[t].self[1]
                  /\ Len(heap[history["default"]].list) =
                        Cardinality({u \in Tasks : WithoutChatId(u) /\ Succeeded(u)})
                  /\ \A u \in Tasks : (WithoutChatId(u) /\ Got(u)) => tasks[u].self = tasks[t].self

====
